---- MODULE Spec2Model ----
(***************************************************************************)
(* The babble node runtime (src/node: node.go, peer_selector.go) as a      *)
(* state machine: the lifecycle loop (Run, babble, fastForward, connect),  *)
(* the background intake, the control timer, the tracked RPC-handler and   *)
(* gossip tasks, the callers of Shutdown, the core lock and the peer       *)
(* selector.  The consensus core, the node-state cell, the control timer   *)
(* and peers.ExcludePeer are collaborators whose code lives in other       *)
(* files; they are modelled from the specification's description.         *)
(***************************************************************************)
EXTENDS Integers, FiniteSets, Sequences, TLC

(* ------------------------------ bounds --------------------------------- *)
\* Tracked tasks (RPC handlers and gossip tasks) spawned in one run.
MaxTasks == 2
\* Transactions the application submits on each submit channel.
MaxSubmits == 1
\* Tasks that call Shutdown().
NumCallers == 2
\* Highest event index of a creator in a Known map.
MaxIdx == 1
\* Peers of the cluster (ids 1..NumPeers).
NumPeers == 3
\* Highest block index the consensus engine commits.
MaxBlock == 0

\* Gossip tasks one babble call starts in the fleet specification.
MaxFleet == 102

(* ------------------------- program constants --------------------------- *)
\* Node.id, the node's own peer id.
SelfID == 1
\* conf.SyncLimit.
SyncLimit == 1
\* conf.HeartbeatTimeout, in milliseconds.
HeartbeatTimeout == 10
\* time.Second, in milliseconds: the idle interval of resetTimer.
OneSecond == 1000
\* The self-events processJoinRequest appends when the node is alone.
ForceEvents == 10
\* Capacity of babble's returnCh.
ReturnChCap == 100

Tasks == 1 .. MaxTasks
Callers == 1 .. NumCallers
PeerIds == 1 .. NumPeers
\* Creators of the events of the Known maps: the node and one remote.
Creators == {SelfID, SelfID + 1}
\* Identities of the lock holders that are not tracked tasks.
Free == 0
MainId == MaxTasks + 1
BgId == MaxTasks + 2

Max2(a, b) == IF a >= b THEN a ELSE b
Min2(a, b) == IF a <= b THEN a ELSE b

(* ------------------------- the consensus core -------------------------- *)
KnownMaps == [Creators -> 0 .. MaxIdx]
ZeroKnown == [c \in Creators |-> 0]
Events == [c : Creators, i : 1 .. MaxIdx]
WireEvents == Creators \X (1 .. MaxIdx)

\* Core.KnownEvents: peer id -> highest event index this node has.
KnownEvents(core) == core.known

\* Total of the events the node has and the remote (Known map K) lacks.
RECURSIVE TotUnknown(_, _, _)
TotUnknown(core, K, cs) ==
    IF cs = {} THEN 0
    ELSE LET c == CHOOSE x \in cs : TRUE
         IN  Max2(0, core.known[c] - K[c]) + TotUnknown(core, K, cs \ {c})

\* Core.OverSyncLimit(known, syncLimit).
OverSyncLimit(core, K, limit) == TotUnknown(core, K, Creators) > limit

\* Core.EventDiff(known): the events the node has and the remote lacks.
EventDiff(core, K) ==
    {e \in Events : K[e.c] < e.i /\ e.i <= core.known[e.c]}

\* Core.ToWire: an event becomes the pair (creator id, index).
ToWire(evs) == {<<e.c, e.i>> : e \in evs}

\* The wire events a remote whose Known map is R sends to a node whose map is K.
WireDiff(R, K) == {w \in WireEvents : K[w[1]] < w[2] /\ w[2] <= R[w[1]]}

\* Wire events that cannot be inserted: an event whose predecessor is unknown.
HasGap(core, wire) ==
    \E w \in wire : w[2] > core.known[w[1]] + 1 /\ <<w[1], w[2] - 1>> \notin wire

NewWire(core, wire) == {w \in wire : w[2] > core.known[w[1]]}

\* The core with one more self-event: the pools are packed into the event.
WithSelfEvent(core) ==
    [core EXCEPT !.known[SelfID] = Min2(MaxIdx, @ + 1),
                 !.txPool = 0, !.itxPool = 0, !.sigPool = 0]

\* Core.Sync(events): insert the unknown events, then create a new head when
\* there is something to record.  An event with an unknown parent is an error.
SyncErr(core, wire) == HasGap(core, wire)
SyncCore(core, wire) ==
    LET ins == [core EXCEPT
                  !.known = [c \in Creators |->
                     Max2(@[c], IF \E w \in wire : w[1] = c
                                THEN CHOOSE i \in 1 .. MaxIdx :
                                       /\ <<c, i>> \in wire
                                       /\ \A w \in wire : w[1] = c => w[2] <= i
                                ELSE 0)],
                  !.pending = @ + Cardinality(NewWire(core, wire))]
    IN  IF wire # {} \/ core.txPool > 0 \/ core.itxPool > 0 \/ core.sigPool > 0
        THEN WithSelfEvent(ins)
        ELSE ins

\* Core.RunConsensus, successful: the loaded events are processed; with
\* `block` a block is committed and its signature queued.
ConsensusCore(core, block) ==
    IF block
    THEN [core EXCEPT !.pending = 0, !.lastBlock = @ + 1, !.sigPool = 1]
    ELSE [core EXCEPT !.pending = 0]

\* Core.AddTransactions / Core.AddInternalTransactions: append to the pool.
AddTransactions(core) == [core EXCEPT !.txPool = @ + 1]
AddInternalTransactions(core) == [core EXCEPT !.itxPool = @ + 1]

\* Core.FastForward(peer, block, frame): a fresh hashgraph from the frame.
FastForwardCore(core, K, blockIndex) ==
    [core EXCEPT !.known = K, !.pending = 0, !.lastBlock = blockIndex,
                 !.anchor = {}]

InitCore ==
    [known |-> ZeroKnown, txPool |-> 0, itxPool |-> 0, sigPool |-> 0,
     pending |-> 0, anchor |-> {}, lastBlock |-> 0 - 1]

(* --------------------------- peer selector ----------------------------- *)
\* peers.ExcludePeer(peers, id): the peers whose id is not `id`.
ExcludePeer(ps, id) == {p \in ps : p # id}

\* Next with the last-contacted peer excluded even when it is the only one.
NextChoicesAlwaysExcludesLast(ps, selfID, lastID) ==
    LET s1 == ExcludePeer(ps, selfID)
        s2 == IF Cardinality(s1) > 0 THEN ExcludePeer(s1, lastID) ELSE s1
    IN  IF Cardinality(s2) = 0 THEN {0} ELSE s2

\* RandomPeerSelector.Next: the peers rand.Intn may pick; {0} stands for nil.
NextChoices(ps, selfID, lastID) ==
    LET s1 == ExcludePeer(ps, selfID)
        s2 == IF Cardinality(s1) > 1 THEN ExcludePeer(s1, lastID) ELSE s1
    IN  IF Cardinality(s2) = 0 THEN {0} ELSE s2

(* ------------------------------- state --------------------------------- *)
VARIABLES
    state,          \* nodeState.state
    pcMain,         \* position of the lifecycle task (Run)
    addr,           \* Run's addr argument is non-empty
    gossipOn,       \* Run's gossip argument
    pcBg,           \* position of the background intake (doBackgroundWork)
    pcSh,           \* position of each caller of Shutdown()
    tasks,          \* the tracked tasks started with goFunc
    coreLock,       \* holder of Node.coreLock, or Free
    shutdownCloses, \* close(shutdownCh) calls
    timerRun,       \* control timer task: "off", "on" or "stopped"
    timerSet,       \* ControlTimer.set
    timerTs,        \* the interval the timer was last armed with
    timerStops,     \* controlTimer.Shutdown() calls
    transCloses,    \* trans.Close() calls
    storeCloses,    \* Store.Close() calls
    peers,          \* core.peers, the ids of the peer set
    last,           \* RandomPeerSelector.last
    selectorLock,   \* holder of core.selectorLock, or Free
    core,           \* the consensus core
    returnCh,       \* messages buffered in the current babble's returnCh
    submits,        \* transactions the application may still submit
    netKinds,       \* the commands peers may still send on netCh
    mainPeer,       \* the peer local to connect (res.Peer) and fastForward
    fleet,          \* gossip tasks in flight that are followed by count only
    crashed         \* the process died of a panic

vars == <<state, pcMain, addr, gossipOn, pcBg, pcSh, tasks, coreLock,
          shutdownCloses, timerRun, timerSet, timerTs, timerStops,
          transCloses, storeCloses, peers, last, selectorLock, core, returnCh,
          submits,
          netKinds, mainPeer, fleet, crashed>>

timerVars == <<timerRun, timerSet, timerTs, timerStops>>
closeVars == <<shutdownCloses, transCloses, storeCloses>>
selVars == <<peers, last, selectorLock>>
runArgs == <<addr, gossipOn, netKinds>>

NoReply == [body |-> "none", err |-> FALSE, limit |-> FALSE, events |-> {},
            known |-> ZeroKnown, from |-> 0, peer |-> 0, success |-> FALSE]

IdleTask ==
    [kind |-> "none", pc |-> "idle", peer |-> 0, k |-> ZeroKnown, ev |-> {},
     over |-> FALSE, err |-> FALSE, resp |-> 0, reply |-> NoReply,
     pull |-> "none", eager |-> 0, live |-> FALSE, n |-> 0, upd |-> 0,
     seen |-> ZeroKnown, rc |-> 0, anchor |-> {}]

\* A task that returned: only what it did is kept.
DoneTask(t) ==
    [IdleTask EXCEPT !.kind = t.kind, !.pc = "done", !.resp = t.resp,
                     !.pull = t.pull, !.eager = t.eager, !.upd = t.upd,
                     !.err = t.err]

Running(t) == tasks[t].pc \notin {"off", "idle", "done"}
\* nodeState.wg: the tasks goFunc started that have not returned.
wgCount == Cardinality({t \in Tasks : Running(t)}) + fleet

FreeSlots == {t \in Tasks : tasks[t].pc = "idle"}
NextSlot == CHOOSE t \in FreeSlots : \A u \in FreeSlots : t <= u

ShutdownChClosed == shutdownCloses > 0
TransClosed == transCloses > 0

\* The environment of a run: Run's arguments, the initial peer set, the tasks
\* babble may start, the callers of Shutdown, the commands peers send and the
\* transactions the application submits.
Env(a, g, ps, slots, callers, kinds, sub) ==
    [addr |-> a, gossip |-> g, peers |-> ps, slots |-> slots,
     callers |-> callers, kinds |-> kinds, submits |-> sub]

RpcKinds == {"sync", "join", "eager", "ff", "unknown"}

\* The environments checked: each is a run of the whole node in which the
\* environment uses part of what it may do, so that the tasks that do run
\* are followed through every interleaving.
OneTask == {t \in Tasks : \A u \in Tasks : t <= u}
OneCaller == {c \in Callers : \A d \in Callers : c <= d}
Alone == {SelfID}
Pair == {SelfID, SelfID + 1}

Environments ==
    { \* one RPC of any kind, one Shutdown
      Env(FALSE, FALSE, Alone, OneTask, OneCaller, RpcKinds, 0),
      \* one RPC of any kind and the application's submissions
      Env(FALSE, FALSE, Pair, OneTask, {}, RpcKinds, MaxSubmits),
      \* concurrent Sync, Join, EagerSync and FastForward handlers
      Env(FALSE, FALSE, Alone, Tasks, {}, {"sync", "join", "eager", "ff"}, 0),
      \* concurrent gossip tasks in the full cluster
      Env(FALSE, TRUE, PeerIds, Tasks, {}, {}, 0),
      \* concurrent Shutdown calls, one RPC
      Env(FALSE, FALSE, Alone, OneTask, Callers, {"unknown"}, 0),
      \* a joining node: connect, fastForward, gossip, one Shutdown
      Env(TRUE, TRUE, Alone, OneTask, OneCaller, {}, 0),
      \* gossip with one peer and concurrent Shutdown calls
      Env(FALSE, TRUE, Pair, OneTask, Callers, {}, 0),
      \* a node alone in its peer set with gossip enabled, one RPC
      Env(FALSE, TRUE, Alone, OneTask, {}, RpcKinds, 0) }

\* The node NewNode returns, in environment e.
InitEnv(e) ==
    /\ state = "Babbling"
    /\ pcMain = "init"
    /\ addr = e.addr
    /\ gossipOn = e.gossip
    /\ pcBg = "off"
    /\ pcSh = [c \in Callers |-> IF c \in e.callers THEN "idle" ELSE "off"]
    /\ tasks = [t \in Tasks |->
                  IF t \in e.slots THEN IdleTask
                  ELSE [IdleTask EXCEPT !.pc = "off"]]
    /\ coreLock = Free
    /\ shutdownCloses = 0
    /\ timerRun = "off"
    /\ timerSet = FALSE
    /\ timerTs = 0
    /\ timerStops = 0
    /\ transCloses = 0
    /\ storeCloses = 0
    /\ peers = e.peers
    /\ last = 0
    /\ selectorLock = Free
    /\ core = InitCore
    /\ returnCh = 0
    /\ submits = [tx |-> e.submits, itx |-> e.submits]
    /\ netKinds = e.kinds
    /\ mainPeer = 0
    /\ fleet = 0
    /\ crashed = FALSE

Init == \E e \in Environments : InitEnv(e)

(* ----------------------------- resetTimer ------------------------------ *)
\* resetTimer without the test of the block-signature pool.
ResetIntervalIgnoresSignatures(c) ==
    IF c.pending = 0 /\ c.txPool = 0
    THEN OneSecond
    ELSE HeartbeatTimeout

\* The interval resetTimer chooses.
ResetInterval(c) ==
    IF c.pending = 0 /\ c.txPool = 0 /\ c.sigPool = 0
    THEN OneSecond
    ELSE HeartbeatTimeout

\* resetTimer without the test of controlTimer.set.
ResetBodyAlwaysSends(h) ==
    /\ coreLock = h
    /\ timerRun = "on"
    /\ timerSet' = TRUE
    /\ timerTs' = ResetInterval(core)
    /\ UNCHANGED <<timerRun, timerStops>>
    /\ coreLock' = Free

\* resetTimer, holding coreLock: when the timer is not armed, send the
\* interval on resetCh (the timer task receives it and arms), then unlock.
ResetBody(h) ==
    /\ coreLock = h
    /\ IF timerSet
       THEN UNCHANGED timerVars
       ELSE /\ timerRun = "on"
            /\ timerSet' = TRUE
            /\ timerTs' = ResetInterval(core)
            /\ UNCHANGED <<timerRun, timerStops>>
    /\ coreLock' = Free

Lock(h) == coreLock = Free /\ coreLock' = h

(* --------------------------- lifecycle: Run ---------------------------- *)
RunStart ==
    /\ ~crashed /\ pcMain = "init"
    /\ state' = IF addr THEN "Joining" ELSE state
    /\ timerRun' = "on" /\ timerSet' = TRUE /\ timerTs' = HeartbeatTimeout
    /\ pcBg' = "select"
    /\ pcMain' = "loop"
    /\ UNCHANGED <<runArgs, fleet, pcSh, tasks, coreLock, closeVars, timerStops,
                   selVars, core, returnCh, submits, mainPeer, crashed>>

\* The pc the Run loop continues at for each state it reads.
LoopTarget(s) ==
    CASE s = "Babbling" -> "babble"
      [] s = "CatchingUp" -> "ff_wait"
      [] s = "Joining" -> "connect"
      [] OTHER -> "done"

LoopRead ==
    /\ ~crashed /\ pcMain = "loop"
    /\ pcMain' = LoopTarget(state)
    /\ returnCh' = 0
    /\ tasks' = [t \in Tasks |-> [tasks[t] EXCEPT !.live = FALSE]]
    /\ UNCHANGED <<state, runArgs, fleet, pcBg, pcSh, coreLock, closeVars, timerVars,
                   selVars, core, submits, mainPeer, crashed>>

(* -------------------------- lifecycle: babble -------------------------- *)
\* processRPC's switch: where the handler of each command starts.
FirstPc(kind) ==
    CASE kind = "sync" -> "sr_lock1"
      [] kind = "join" -> "jr_lock"
      [] kind = "eager" -> "es_lock"
      [] kind = "ff" -> "fr_lock"
      [] OTHER -> "unk"

\* The RPCs the transport may deliver on netCh.
RpcInputs ==
    {[IdleTask EXCEPT !.kind = "sync", !.k = K] : K \in KnownMaps}
    \cup {[IdleTask EXCEPT !.kind = "eager", !.ev = W] : W \in SUBSET WireEvents}
    \cup {[IdleTask EXCEPT !.kind = kd] : kd \in {"join", "ff", "unknown"}}

\* case rpc := <-n.netCh: start a tracked task that processes the RPC.
BabbleRPC ==
    /\ ~crashed /\ pcMain = "babble"
    /\ FreeSlots # {}
    /\ \E r \in {x \in RpcInputs : x.kind \in netKinds} :
         tasks' = [tasks EXCEPT ![NextSlot] = [r EXCEPT !.pc = FirstPc(r.kind)]]
    /\ UNCHANGED <<state, pcMain, runArgs, fleet, pcBg, pcSh, coreLock, closeVars,
                   timerVars, selVars, core, returnCh, submits, mainPeer,
                   crashed>>

GossipTask(p) ==
    [IdleTask EXCEPT !.kind = "gossip", !.pc = "pl_lock", !.peer = p,
                     !.live = TRUE]

\* The timer fires.  A babble loop waiting in its select takes the tick:
\* with gossip enabled it asks the selector for a peer and starts a gossip
\* task, or continues when there is none; then it calls resetTimer.  A tick
\* nobody waits for is dropped.
TimerTick ==
    /\ ~crashed /\ timerRun = "on" /\ timerSet
    /\ timerSet' = FALSE
    /\ IF pcMain = "babble"
       THEN IF gossipOn
            THEN \E p \in NextChoices(peers, SelfID, last) :
                   IF p = 0
                   THEN UNCHANGED <<pcMain, tasks>>
                   ELSE /\ FreeSlots # {}
                        /\ tasks' = [tasks EXCEPT ![NextSlot] = GossipTask(p)]
                        /\ pcMain' = "b_rt_lock"
            ELSE pcMain' = "b_rt_lock" /\ UNCHANGED tasks
       ELSE UNCHANGED <<pcMain, tasks>>
    /\ UNCHANGED <<state, runArgs, fleet, pcBg, pcSh, coreLock, closeVars, timerRun,
                   timerTs, timerStops, selVars, core, returnCh, submits,
                   mainPeer, crashed>>

MainResetLock ==
    /\ ~crashed /\ pcMain = "b_rt_lock"
    /\ Lock(MainId)
    /\ pcMain' = "b_rt_body"
    /\ UNCHANGED <<state, runArgs, fleet, pcBg, pcSh, tasks, closeVars, timerVars,
                   selVars, core, returnCh, submits, mainPeer, crashed>>

MainResetBody ==
    /\ ~crashed /\ pcMain = "b_rt_body"
    /\ ResetBody(MainId)
    /\ pcMain' = "babble"
    /\ UNCHANGED <<state, runArgs, fleet, pcBg, pcSh, tasks, closeVars, selVars, core,
                   returnCh, submits, mainPeer, crashed>>

\* case <-returnCh: return from babble.
BabbleReturn ==
    /\ ~crashed /\ pcMain = "babble"
    /\ returnCh > 0
    /\ returnCh' = returnCh - 1
    /\ pcMain' = "loop"
    /\ UNCHANGED <<state, runArgs, fleet, pcBg, pcSh, tasks, coreLock, closeVars,
                   timerVars, selVars, core, submits, mainPeer, crashed>>

\* case <-n.shutdownCh: return from babble.
BabbleShutdown ==
    /\ ~crashed /\ pcMain = "babble"
    /\ ShutdownChClosed
    /\ pcMain' = "loop"
    /\ UNCHANGED <<state, runArgs, fleet, pcBg, pcSh, tasks, coreLock, closeVars,
                   timerVars, selVars, core, returnCh, submits, mainPeer,
                   crashed>>

(* ------------------------- lifecycle: connect -------------------------- *)
\* requestJoin(addr): an error sets the state to Shutdown.
ConnectRequest ==
    /\ ~crashed /\ pcMain = "connect"
    /\ IF addr
       THEN \/ /\ state' = "Shutdown"
               /\ pcMain' = "loop"
               /\ UNCHANGED mainPeer
            \/ /\ ~TransClosed
               /\ \E r \in PeerIds \ {SelfID} : mainPeer' = r
               /\ pcMain' = "connect_fin"
               /\ UNCHANGED state
       ELSE /\ mainPeer' = 0
            /\ pcMain' = "connect_fin"
            /\ UNCHANGED state
    /\ UNCHANGED <<runArgs, fleet, pcBg, pcSh, tasks, coreLock, closeVars, timerVars,
                   selVars, core, returnCh, submits, crashed>>

\* connect that installs the new selector without adding the responder.
ConnectFinishWithoutPeer ==
    /\ ~crashed /\ pcMain = "connect_fin"
    /\ last' = 0
    /\ state' = "CatchingUp"
    /\ pcMain' = "loop"
    /\ UNCHANGED <<runArgs, fleet, pcBg, pcSh, tasks, coreLock, closeVars, timerVars,
                   peers, selectorLock, core, returnCh, submits, mainPeer,
                   crashed>>

\* The responder joins the peer set, a new selector is installed, and the
\* state becomes CatchingUp.
ConnectFinish ==
    /\ ~crashed /\ pcMain = "connect_fin"
    /\ peers' = peers \cup {mainPeer}
    /\ last' = 0
    /\ state' = "CatchingUp"
    /\ pcMain' = "loop"
    /\ UNCHANGED <<runArgs, fleet, pcBg, pcSh, tasks, coreLock, closeVars, timerVars,
                   selectorLock, core, returnCh, submits, mainPeer, crashed>>

(* ----------------------- lifecycle: fastForward ------------------------ *)
\* fastForward without its wait for the tracked tasks.
FFWaitNoWait ==
    /\ ~crashed /\ pcMain = "ff_wait"
    /\ pcMain' = "ff_req"
    /\ UNCHANGED <<state, runArgs, fleet, pcBg, pcSh, tasks, coreLock, closeVars,
                   timerVars, selVars, core, returnCh, submits, mainPeer,
                   crashed>>

\* n.waitRoutines(): wait until the tracked tasks have returned.
FFWait ==
    /\ ~crashed /\ pcMain = "ff_wait"
    /\ wgCount = 0
    /\ pcMain' = "ff_req"
    /\ UNCHANGED <<state, runArgs, fleet, pcBg, pcSh, tasks, coreLock, closeVars,
                   timerVars, selVars, core, returnCh, submits, mainPeer,
                   crashed>>

\* peerSelector.Next() and requestFastForward(peer.NetAddr).  With no peer,
\* peer.NetAddr dereferences nil.
FFRequest ==
    /\ ~crashed /\ pcMain = "ff_req"
    /\ \E p \in NextChoices(peers, SelfID, last) :
         IF p = 0
         THEN crashed' = TRUE /\ pcMain' = "panic" /\ UNCHANGED mainPeer
         ELSE /\ mainPeer' = p
              /\ UNCHANGED crashed
              /\ \/ pcMain' = "loop"
                 \/ ~TransClosed /\ pcMain' = "ff_lock"
    /\ UNCHANGED <<state, runArgs, fleet, pcBg, pcSh, tasks, coreLock, closeVars,
                   timerVars, selVars, core, returnCh, submits>>

FFLock ==
    /\ ~crashed /\ pcMain = "ff_lock"
    /\ Lock(MainId)
    /\ pcMain' = "ff_core"
    /\ UNCHANGED <<state, runArgs, fleet, pcBg, pcSh, tasks, closeVars, timerVars,
                   selVars, core, returnCh, submits, mainPeer, crashed>>

\* core.FastForward under the lock; an error ends in logger.Panic.
FFCore ==
    /\ ~crashed /\ pcMain = "ff_core" /\ coreLock = MainId
    /\ coreLock' = Free
    /\ \/ /\ \E K \in KnownMaps, b \in 0 .. MaxBlock :
               core' = FastForwardCore(core, K, b)
          /\ pcMain' = "ff_restore"
          /\ UNCHANGED crashed
       \/ /\ crashed' = TRUE
          /\ pcMain' = "panic"
          /\ UNCHANGED core
    /\ UNCHANGED <<state, runArgs, fleet, pcBg, pcSh, tasks, closeVars, timerVars,
                   selVars, returnCh, submits, mainPeer>>

\* proxy.Restore(snapshot), outside the lock: it succeeds or returns an error.
FFRestore ==
    /\ ~crashed /\ pcMain = "ff_restore"
    /\ \/ pcMain' = "ff_restored"
       \/ pcMain' = "ff_restore_err"
    /\ UNCHANGED <<state, runArgs, fleet, pcBg, pcSh, tasks, coreLock, closeVars,
                   timerVars, selVars, core, returnCh, submits, mainPeer,
                   crashed>>

\* fastForward going on to setState(Babbling) whatever Restore returned.
AfterRestoreIgnoresError(pc) == "ff_set"

\* if err != nil { return err }
AfterRestore(pc) == IF pc = "ff_restore_err" THEN "loop" ELSE "ff_set"

FFRestoreCheck ==
    /\ ~crashed /\ pcMain \in {"ff_restored", "ff_restore_err"}
    /\ pcMain' = AfterRestore(pcMain)
    /\ UNCHANGED <<state, runArgs, fleet, pcBg, pcSh, tasks, coreLock, closeVars,
                   timerVars, selVars, core, returnCh, submits, mainPeer,
                   crashed>>

FFSetBabbling ==
    /\ ~crashed /\ pcMain = "ff_set"
    /\ state' = "Babbling"
    /\ pcMain' = "loop"
    /\ UNCHANGED <<runArgs, fleet, pcBg, pcSh, tasks, coreLock, closeVars, timerVars,
                   selVars, core, returnCh, submits, mainPeer, crashed>>

(* ------------------------- background intake --------------------------- *)
\* select: a user transaction, an internal transaction, or the shutdown.
BgSelect ==
    /\ ~crashed /\ pcBg = "select"
    /\ \/ /\ submits.tx > 0
          /\ submits' = [submits EXCEPT !.tx = @ - 1]
          /\ pcBg' = "tx_lock"
       \/ /\ submits.itx > 0
          /\ submits' = [submits EXCEPT !.itx = @ - 1]
          /\ pcBg' = "itx_lock"
       \/ /\ ShutdownChClosed
          /\ pcBg' = "done"
          /\ UNCHANGED submits
    /\ UNCHANGED <<state, pcMain, runArgs, fleet, pcSh, tasks, coreLock, closeVars,
                   timerVars, selVars, core, returnCh, mainPeer, crashed>>

BgLock ==
    /\ ~crashed /\ pcBg \in {"tx_lock", "itx_lock", "rt_lock"}
    /\ Lock(BgId)
    /\ pcBg' = CASE pcBg = "tx_lock" -> "tx_add"
                 [] pcBg = "itx_lock" -> "itx_add"
                 [] OTHER -> "rt_body"
    /\ UNCHANGED <<state, pcMain, runArgs, fleet, pcSh, tasks, closeVars, timerVars,
                   selVars, core, returnCh, submits, mainPeer, crashed>>

\* addTransaction / addInternalTransaction, holding the lock.
BgAdd ==
    /\ ~crashed /\ pcBg \in {"tx_add", "itx_add"} /\ coreLock = BgId
    /\ core' = IF pcBg = "tx_add" THEN AddTransactions(core)
               ELSE AddInternalTransactions(core)
    /\ coreLock' = Free
    /\ pcBg' = "rt_lock"
    /\ UNCHANGED <<state, pcMain, runArgs, fleet, pcSh, tasks, closeVars, timerVars,
                   selVars, returnCh, submits, mainPeer, crashed>>

BgResetBody ==
    /\ ~crashed /\ pcBg = "rt_body"
    /\ ResetBody(BgId)
    /\ pcBg' = "select"
    /\ UNCHANGED <<state, pcMain, runArgs, fleet, pcSh, tasks, closeVars, selVars,
                   core, returnCh, submits, mainPeer, crashed>>

(* ------------------------------ Shutdown ------------------------------- *)
\* if n.getState() != Shutdown
ShCall(c) ==
    /\ ~crashed /\ pcSh[c] = "idle" /\ pcMain # "init"
    /\ pcSh' = [pcSh EXCEPT ![c] = IF state # "Shutdown" THEN "set" ELSE "ret"]
    /\ UNCHANGED <<state, pcMain, runArgs, fleet, pcBg, tasks, coreLock, closeVars,
                   timerVars, selVars, core, returnCh, submits, mainPeer,
                   crashed>>

\* n.setState(Shutdown)
ShSet(c) ==
    /\ ~crashed /\ pcSh[c] = "set"
    /\ state' = "Shutdown"
    /\ pcSh' = [pcSh EXCEPT ![c] = "close"]
    /\ UNCHANGED <<pcMain, runArgs, fleet, pcBg, tasks, coreLock, closeVars, timerVars,
                   selVars, core, returnCh, submits, mainPeer, crashed>>

\* close(n.shutdownCh): closing a closed channel panics.
ShClose(c) ==
    /\ ~crashed /\ pcSh[c] = "close"
    /\ shutdownCloses' = shutdownCloses + 1
    /\ crashed' = ShutdownChClosed
    /\ pcSh' = [pcSh EXCEPT ![c] = IF ShutdownChClosed THEN "panic" ELSE "wait"]
    /\ UNCHANGED <<state, pcMain, runArgs, fleet, pcBg, tasks, coreLock, transCloses,
                   storeCloses, timerVars, selVars, core, returnCh, submits,
                   mainPeer>>

\* n.waitRoutines()
ShWait(c) ==
    /\ ~crashed /\ pcSh[c] = "wait"
    /\ wgCount = 0
    /\ pcSh' = [pcSh EXCEPT ![c] = "timer"]
    /\ UNCHANGED <<state, pcMain, runArgs, fleet, pcBg, tasks, coreLock, closeVars,
                   timerVars, selVars, core, returnCh, submits, mainPeer,
                   crashed>>

\* n.controlTimer.Shutdown()
ShTimer(c) ==
    /\ ~crashed /\ pcSh[c] = "timer"
    /\ timerRun' = "stopped"
    /\ timerSet' = FALSE
    /\ timerStops' = timerStops + 1
    /\ pcSh' = [pcSh EXCEPT ![c] = "trans"]
    /\ UNCHANGED <<state, pcMain, runArgs, fleet, pcBg, tasks, coreLock, closeVars,
                   timerTs, selVars, core, returnCh, submits, mainPeer,
                   crashed>>

\* n.trans.Close()
ShTrans(c) ==
    /\ ~crashed /\ pcSh[c] = "trans"
    /\ transCloses' = transCloses + 1
    /\ pcSh' = [pcSh EXCEPT ![c] = "store"]
    /\ UNCHANGED <<state, pcMain, runArgs, fleet, pcBg, tasks, coreLock,
                   shutdownCloses, storeCloses, timerVars, selVars, core,
                   returnCh, submits, mainPeer, crashed>>

\* n.core.hg.Store.Close()
ShStore(c) ==
    /\ ~crashed /\ pcSh[c] = "store"
    /\ storeCloses' = storeCloses + 1
    /\ pcSh' = [pcSh EXCEPT ![c] = "ret"]
    /\ UNCHANGED <<state, pcMain, runArgs, fleet, pcBg, tasks, coreLock,
                   shutdownCloses, transCloses, timerVars, selVars, core,
                   returnCh, submits, mainPeer, crashed>>

(* --------------------------- tracked tasks ----------------------------- *)
taskFrame == <<state, pcMain, runArgs, fleet, pcBg, pcSh, closeVars, returnCh,
               submits, mainPeer>>

\* A task whose function returned leaves the wait-group.
Fin(r) == IF r.pc = "done" THEN DoneTask(r) ELSE r
SetTask(t, r) == tasks' = [tasks EXCEPT ![t] = Fin(r)]

\* Where a task continues once it holds the lock it waits for.
AfterLock(pc) ==
    CASE pc = "sr_lock1" -> "sr_over"
      [] pc = "sr_lock2" -> "sr_diff"
      [] pc = "sr_lock3" -> "sr_known"
      [] pc = "jr_lock" -> "jr_additx"
      [] pc = "es_lock" -> "es_sync"
      [] pc = "fr_lock" -> "fr_anchor"
      [] pc = "pl_lock" -> "pl_known"
      [] pc = "pl_lock2" -> "pl_sync"
      [] pc = "ps_lock1" -> "ps_over"
      [] pc = "ps_lock2" -> "ps_diff"
      [] OTHER -> "rt_body"

LockPcs == {"sr_lock1", "sr_lock2", "sr_lock3", "jr_lock", "es_lock",
            "fr_lock", "pl_lock", "pl_lock2", "ps_lock1", "ps_lock2",
            "rt_lock"}

\* n.coreLock.Lock()
TaskLock(t) ==
    /\ ~crashed /\ tasks[t].pc \in LockPcs
    /\ Lock(t)
    /\ SetTask(t, [tasks[t] EXCEPT !.pc = AfterLock(@)])
    /\ UNCHANGED <<taskFrame, timerVars, selVars, core, crashed>>

\* n.resetTimer(), the last call of an RPC task.
TaskResetBody(t) ==
    /\ ~crashed /\ tasks[t].pc = "rt_body"
    /\ ResetBody(t)
    /\ SetTask(t, [tasks[t] EXCEPT !.pc = "done"])
    /\ UNCHANGED <<taskFrame, selVars, core, crashed>>

\* n.sync(events) = core.Sync, then core.RunConsensus: the cores it may
\* leave and whether it returned an error.
SyncOutcomes(c, wire) ==
    IF SyncErr(c, wire)
    THEN {[core |-> c, err |-> TRUE]}
    ELSE {[core |-> SyncCore(c, wire), err |-> TRUE]}
         \cup {[core |-> ConsensusCore(SyncCore(c, wire), b), err |-> FALSE] :
                 b \in {x \in BOOLEAN : x => SyncCore(c, wire).lastBlock < MaxBlock}}

(* processRPC: unknown command *)
\* The default branch replying without an error.
UnknownReplyNoError == [NoReply EXCEPT !.body = "nil"]

\* rpc.Respond(nil, fmt.Errorf("unexpected command"))
UnknownReply == [NoReply EXCEPT !.body = "nil", !.err = TRUE]

UnkRespond(t) ==
    /\ ~crashed /\ tasks[t].pc = "unk"
    /\ SetTask(t, [tasks[t] EXCEPT !.resp = @ + 1, !.reply = UnknownReply,
                                   !.pc = "rt_lock"])
    /\ UNCHANGED <<taskFrame, coreLock, timerVars, selVars, core, crashed>>

(* processSyncRequest *)
\* The field `seen` of a task is a history value: the core's Known map as it
\* was when the handler's previous locked section ran.

\* The handler computing the diff also for a requester over the limit.
SrOverKeepsDiff(t) ==
    /\ ~crashed /\ tasks[t].pc = "sr_over" /\ coreLock = t
    /\ LET over == OverSyncLimit(core, tasks[t].k, SyncLimit)
       IN  SetTask(t, [tasks[t] EXCEPT
                         !.over = over,
                         !.reply.limit = over,
                         !.seen = KnownEvents(core),
                         !.pc = "sr_lock2"])
    /\ coreLock' = Free
    /\ UNCHANGED <<taskFrame, timerVars, selVars, core, crashed>>

\* OverSyncLimit(cmd.Known, SyncLimit) under the lock.
SrOver(t) ==
    /\ ~crashed /\ tasks[t].pc = "sr_over" /\ coreLock = t
    /\ LET over == OverSyncLimit(core, tasks[t].k, SyncLimit)
       IN  SetTask(t, [tasks[t] EXCEPT
                         !.over = over,
                         !.reply.limit = over,
                         !.seen = KnownEvents(core),
                         !.pc = IF over THEN "sr_lock3" ELSE "sr_lock2"])
    /\ coreLock' = Free
    /\ UNCHANGED <<taskFrame, timerVars, selVars, core, crashed>>

\* EventDiff(cmd.Known) under the lock: the diff, or an error and no diff.
SrDiff(t) ==
    /\ ~crashed /\ tasks[t].pc = "sr_diff" /\ coreLock = t
    /\ \/ SetTask(t, [tasks[t] EXCEPT !.ev = EventDiff(core, tasks[t].k),
                                      !.seen = KnownEvents(core),
                                      !.pc = "sr_towire"])
       \/ SetTask(t, [tasks[t] EXCEPT !.ev = {}, !.err = TRUE,
                                      !.seen = KnownEvents(core),
                                      !.pc = "sr_towire"])
    /\ coreLock' = Free
    /\ UNCHANGED <<taskFrame, timerVars, selVars, core, crashed>>

\* n.core.ToWire(eventDiff), after the lock was released.
SrToWire(t) ==
    /\ ~crashed /\ tasks[t].pc = "sr_towire"
    /\ \/ SetTask(t, [tasks[t] EXCEPT !.reply.events = ToWire(tasks[t].ev),
                                      !.ev = {}, !.pc = "sr_lock3"])
       \/ SetTask(t, [tasks[t] EXCEPT !.err = TRUE, !.ev = {},
                                      !.pc = "sr_lock3"])
    /\ UNCHANGED <<taskFrame, coreLock, timerVars, selVars, core, crashed>>

\* KnownEvents under the lock, then rpc.Respond(resp, respErr).
SrKnown(t) ==
    /\ ~crashed /\ tasks[t].pc = "sr_known" /\ coreLock = t
    /\ SetTask(t, [tasks[t] EXCEPT
                     !.reply = [@ EXCEPT !.body = "sync", !.from = SelfID,
                                         !.known = KnownEvents(core),
                                         !.err = tasks[t].err],
                     !.resp = @ + 1,
                     !.seen = ZeroKnown,
                     !.pc = "rt_lock"])
    /\ coreLock' = Free
    /\ UNCHANGED <<taskFrame, timerVars, selVars, core, crashed>>

(* processJoinRequest *)
JrAddItx(t) ==
    /\ ~crashed /\ tasks[t].pc = "jr_additx" /\ coreLock = t
    /\ core' = AddInternalTransactions(core)
    /\ coreLock' = Free
    /\ SetTask(t, [tasks[t] EXCEPT !.pc = "jr_force"])
    /\ UNCHANGED <<taskFrame, timerVars, selVars, crashed>>

\* The core after n successful AddSelfEvent calls.
RECURSIVE SelfEvents(_, _)
SelfEvents(c, n) == IF n = 0 THEN c ELSE SelfEvents(WithSelfEvent(c), n - 1)

\* The forced self-events of a node that is alone: the loop stops at the
\* first AddSelfEvent error.  No lock is held.
JrForce(t) ==
    /\ ~crashed /\ tasks[t].pc = "jr_force"
    /\ IF Cardinality(peers) = 1
       THEN \E n \in 0 .. ForceEvents :
              /\ core' = SelfEvents(core, n)
              /\ SetTask(t, [tasks[t] EXCEPT !.n = n,
                                             !.err = (n < ForceEvents),
                                             !.pc = "jr_consensus"])
       ELSE /\ SetTask(t, [tasks[t] EXCEPT !.pc = "jr_consensus"])
            /\ UNCHANGED core
    /\ UNCHANGED <<taskFrame, coreLock, timerVars, selVars, crashed>>

\* n.core.RunConsensus(), no lock held; rc counts the handler's calls.
JrConsensus(t) ==
    /\ ~crashed /\ tasks[t].pc = "jr_consensus"
    /\ \/ /\ \E b \in {x \in BOOLEAN : x => core.lastBlock < MaxBlock} :
               core' = ConsensusCore(core, b)
          /\ SetTask(t, [tasks[t] EXCEPT !.rc = @ + 1, !.pc = "jr_anchor"])
       \/ /\ SetTask(t, [tasks[t] EXCEPT !.rc = @ + 1, !.err = TRUE,
                                         !.pc = "jr_anchor"])
          /\ UNCHANGED core
    /\ UNCHANGED <<taskFrame, coreLock, timerVars, selVars, crashed>>

\* if AnchorBlock == nil { anchor := Store.LastBlockIndex(): no lock is
\* held, so the test and the read are a step of their own; the task's
\* anchor is the index it is about to store, or empty when it stores none.
JrAnchor(t) ==
    /\ ~crashed /\ tasks[t].pc = "jr_anchor"
    /\ SetTask(t, [tasks[t] EXCEPT
                     !.anchor = IF core.anchor = {} THEN {core.lastBlock}
                                ELSE {},
                     !.pc = "jr_respond"])
    /\ UNCHANGED <<taskFrame, coreLock, timerVars, selVars, core, crashed>>

\* AnchorBlock = &anchor }, then rpc.Respond(resp, respErr).
JrRespond(t) ==
    /\ ~crashed /\ tasks[t].pc = "jr_respond"
    /\ core' = IF tasks[t].anchor # {}
               THEN [core EXCEPT !.anchor = tasks[t].anchor]
               ELSE core
    /\ SetTask(t, [tasks[t] EXCEPT
                     !.reply = [@ EXCEPT !.body = "join", !.from = SelfID,
                                         !.peer = SelfID,
                                         !.err = tasks[t].err],
                     !.resp = @ + 1,
                     !.anchor = {},
                     !.pc = "rt_lock"])
    /\ UNCHANGED <<taskFrame, coreLock, timerVars, selVars, crashed>>

(* processEagerSyncRequest *)
EsSync(t) ==
    /\ ~crashed /\ tasks[t].pc = "es_sync" /\ coreLock = t
    /\ \E o \in SyncOutcomes(core, tasks[t].ev) :
         /\ core' = o.core
         /\ SetTask(t, [tasks[t] EXCEPT
                          !.err = o.err,
                          !.ev = {},
                          !.reply = [@ EXCEPT !.body = "eager",
                                              !.from = SelfID,
                                              !.success = ~o.err,
                                              !.err = o.err],
                          !.resp = @ + 1,
                          !.pc = "rt_lock"])
    /\ coreLock' = Free
    /\ UNCHANGED <<taskFrame, timerVars, selVars, crashed>>

(* processFastForwardRequest *)
\* GetAnchorBlockWithFrame under the lock.  Without an anchor block it
\* returns an error and no block, and resp.Block = *block dereferences nil.
FrAnchor(t) ==
    /\ ~crashed /\ tasks[t].pc = "fr_anchor" /\ coreLock = t
    /\ coreLock' = Free
    /\ IF core.anchor = {}
       THEN /\ SetTask(t, [tasks[t] EXCEPT !.err = TRUE, !.pc = "panic"])
            /\ crashed' = TRUE
       ELSE /\ SetTask(t, [tasks[t] EXCEPT !.pc = "fr_snapshot"])
            /\ UNCHANGED crashed
    /\ UNCHANGED <<taskFrame, timerVars, selVars, core>>

\* proxy.GetSnapshot(block.Index()) outside the lock, then rpc.Respond.
FrSnapshot(t) ==
    /\ ~crashed /\ tasks[t].pc = "fr_snapshot"
    /\ \E e \in BOOLEAN :
         SetTask(t, [tasks[t] EXCEPT
                       !.err = e,
                       !.reply = [@ EXCEPT !.body = "ff", !.from = SelfID,
                                           !.err = e],
                       !.resp = @ + 1,
                       !.pc = "rt_lock"])
    /\ UNCHANGED <<taskFrame, coreLock, timerVars, selVars, core, crashed>>

(* ------------------------------- gossip -------------------------------- *)
\* gossip without the return on pull's error.
AfterPullIgnoresError(res) ==
    CASE res = "limit" -> "g_limit"
      [] OTHER -> "ps_lock1"

\* gossip's use of pull's result: an error ends the task, a sync-limit
\* leads to the catch-up hand-over, anything else to push.
AfterPull(res) ==
    CASE res = "err" -> "done"
      [] res = "limit" -> "g_limit"
      [] OTHER -> "ps_lock1"

\* pull that keeps the lock across its request.
PlKnownKeepsLock(t) ==
    /\ ~crashed /\ tasks[t].pc = "pl_known" /\ coreLock = t
    /\ SetTask(t, [tasks[t] EXCEPT !.k = KnownEvents(core), !.pc = "pl_req"])
    /\ UNCHANGED <<taskFrame, coreLock, timerVars, selVars, core, crashed>>

\* pull: KnownEvents under the lock.
PlKnown(t) ==
    /\ ~crashed /\ tasks[t].pc = "pl_known" /\ coreLock = t
    /\ SetTask(t, [tasks[t] EXCEPT !.k = KnownEvents(core), !.pc = "pl_req"])
    /\ coreLock' = Free
    /\ UNCHANGED <<taskFrame, timerVars, selVars, core, crashed>>

\* pull: requestSync(peer.NetAddr, knownEvents).  The transport fails, or
\* the peer replies SyncLimit, or it replies its Known map R and the events
\* it has beyond the Known map it was sent.
PlRequest(t) ==
    /\ ~crashed /\ tasks[t].pc = "pl_req"
    /\ \/ SetTask(t, [tasks[t] EXCEPT !.pull = "err", !.err = TRUE,
                                      !.pc = AfterPull("err")])
       \/ /\ ~TransClosed
          /\ SetTask(t, [tasks[t] EXCEPT !.pull = "limit",
                                         !.pc = AfterPull("limit")])
       \/ /\ ~TransClosed
          /\ \E R \in KnownMaps :
               SetTask(t, [tasks[t] EXCEPT !.ev = WireDiff(R, tasks[t].k),
                                           !.k = R, !.pc = "pl_lock2"])
    /\ UNCHANGED <<taskFrame, coreLock, timerVars, selVars, core, crashed>>

\* pull: n.sync(resp.Events) under the lock.
PlSync(t) ==
    /\ ~crashed /\ tasks[t].pc = "pl_sync" /\ coreLock = t
    /\ \E o \in SyncOutcomes(core, tasks[t].ev) :
         /\ core' = o.core
         /\ LET res == IF o.err THEN "err" ELSE "ok"
            IN  SetTask(t, [tasks[t] EXCEPT !.pull = res, !.err = o.err,
                                            !.ev = {}, !.pc = AfterPull(res)])
    /\ coreLock' = Free
    /\ UNCHANGED <<taskFrame, timerVars, selVars, crashed>>

\* n.setState(CatchingUp); parentReturnCh <- struct{}{}.  The channel of a
\* babble call that has returned keeps its own buffer.
GLimit(t) ==
    /\ ~crashed /\ tasks[t].pc = "g_limit"
    /\ state' = "CatchingUp"
    /\ IF tasks[t].live
       THEN returnCh < ReturnChCap /\ returnCh' = returnCh + 1
       ELSE UNCHANGED returnCh
    /\ SetTask(t, [tasks[t] EXCEPT !.pc = "done"])
    /\ UNCHANGED <<pcMain, runArgs, fleet, pcBg, pcSh, closeVars, submits, mainPeer,
                   coreLock, timerVars, selVars, core, crashed>>

\* push without the over-limit branch.
PsOverWithoutLimit(t) ==
    /\ ~crashed /\ tasks[t].pc = "ps_over" /\ coreLock = t
    /\ SetTask(t, [tasks[t] EXCEPT !.over = FALSE, !.pc = "ps_lock2"])
    /\ coreLock' = Free
    /\ UNCHANGED <<taskFrame, timerVars, selVars, core, crashed>>

\* push: OverSyncLimit(knownEvents, SyncLimit) under the lock.
PsOver(t) ==
    /\ ~crashed /\ tasks[t].pc = "ps_over" /\ coreLock = t
    /\ LET over == OverSyncLimit(core, tasks[t].k, SyncLimit)
       IN  SetTask(t, [tasks[t] EXCEPT
                         !.over = over,
                         !.pc = IF over THEN "g_sel_lock" ELSE "ps_lock2"])
    /\ coreLock' = Free
    /\ UNCHANGED <<taskFrame, timerVars, selVars, core, crashed>>

\* push going on to convert and send a diff that is empty.
PsDiffSendsEmpty(t) ==
    /\ ~crashed /\ tasks[t].pc = "ps_diff" /\ coreLock = t
    /\ \/ SetTask(t, [tasks[t] EXCEPT !.ev = EventDiff(core, tasks[t].k),
                                      !.pc = "ps_towire"])
       \/ SetTask(t, [tasks[t] EXCEPT !.err = TRUE, !.pc = "done"])
    /\ coreLock' = Free
    /\ UNCHANGED <<taskFrame, timerVars, selVars, core, crashed>>

\* push: EventDiff(knownEvents) under the lock.
PsDiff(t) ==
    /\ ~crashed /\ tasks[t].pc = "ps_diff" /\ coreLock = t
    /\ \/ LET d == EventDiff(core, tasks[t].k)
          IN  SetTask(t, [tasks[t] EXCEPT
                            !.ev = d,
                            !.pc = IF d = {} THEN "g_sel_lock" ELSE "ps_towire"])
       \/ SetTask(t, [tasks[t] EXCEPT !.err = TRUE, !.pc = "done"])
    /\ coreLock' = Free
    /\ UNCHANGED <<taskFrame, timerVars, selVars, core, crashed>>

\* push: n.core.ToWire(eventDiff), after the lock was released.
PsToWire(t) ==
    /\ ~crashed /\ tasks[t].pc = "ps_towire"
    /\ \/ SetTask(t, [tasks[t] EXCEPT !.ev = ToWire(tasks[t].ev),
                                      !.pc = "ps_req"])
       \/ SetTask(t, [tasks[t] EXCEPT !.err = TRUE, !.pc = "done"])
    /\ UNCHANGED <<taskFrame, coreLock, timerVars, selVars, core, crashed>>

\* push whose caller goes on to UpdateLast when requestEagerSync failed.
PsRequestIgnoresError(t) ==
    /\ ~crashed /\ tasks[t].pc = "ps_req"
    /\ \/ SetTask(t, [tasks[t] EXCEPT !.eager = @ + 1, !.err = TRUE,
                                      !.pc = "g_sel_lock"])
       \/ /\ ~TransClosed
          /\ SetTask(t, [tasks[t] EXCEPT !.eager = @ + 1, !.ev = {},
                                         !.pc = "g_sel_lock"])
    /\ UNCHANGED <<taskFrame, coreLock, timerVars, selVars, core, crashed>>

\* push: requestEagerSync(peer.NetAddr, wireEvents).
PsRequest(t) ==
    /\ ~crashed /\ tasks[t].pc = "ps_req"
    /\ \/ SetTask(t, [tasks[t] EXCEPT !.eager = @ + 1, !.err = TRUE,
                                      !.pc = "done"])
       \/ /\ ~TransClosed
          /\ SetTask(t, [tasks[t] EXCEPT !.eager = @ + 1, !.ev = {},
                                         !.pc = "g_sel_lock"])
    /\ UNCHANGED <<taskFrame, coreLock, timerVars, selVars, core, crashed>>

\* n.core.selectorLock.Lock()
GSelLock(t) ==
    /\ ~crashed /\ tasks[t].pc = "g_sel_lock"
    /\ selectorLock = Free
    /\ selectorLock' = t
    /\ SetTask(t, [tasks[t] EXCEPT !.pc = "g_update"])
    /\ UNCHANGED <<taskFrame, coreLock, timerVars, peers, last, core, crashed>>

\* peerSelector.UpdateLast(peer.ID), then selectorLock.Unlock().
GUpdate(t) ==
    /\ ~crashed /\ tasks[t].pc = "g_update" /\ selectorLock = t
    /\ last' = tasks[t].peer
    /\ selectorLock' = Free
    /\ SetTask(t, [tasks[t] EXCEPT !.upd = @ + 1, !.pc = "g_stats"])
    /\ UNCHANGED <<taskFrame, coreLock, timerVars, peers, core, crashed>>

\* n.logStats(): GetStats reads the core and its pools, no lock held.
GStats(t) ==
    /\ ~crashed /\ tasks[t].pc = "g_stats"
    /\ SetTask(t, [tasks[t] EXCEPT !.pc = "done"])
    /\ UNCHANGED <<taskFrame, coreLock, timerVars, selVars, core, crashed>>

(* ------------------------ a fleet of gossip tasks ---------------------- *)
\* One babble call may start a gossip task on every tick, however many are
\* still in flight.  The fleet specification follows, by count, the gossip
\* tasks whose pull is answered SyncLimit: such a task reads KnownEvents,
\* changes nothing in the core, sets the state and writes to returnCh.

\* A node with gossip enabled and one other peer; all its gossip tasks are
\* in the fleet.
FleetEnv == Env(FALSE, TRUE, Pair, {}, {}, {}, 0)
FleetInit == InitEnv(FleetEnv)

\* case <-n.controlTimer.tickCh, gossip enabled, Next() returned a peer:
\* n.goFunc(func() { n.gossip(peer, returnCh) }), then resetTimer.
FleetTick ==
    /\ ~crashed /\ timerRun = "on" /\ timerSet
    /\ pcMain = "babble" /\ gossipOn
    /\ NextChoices(peers, SelfID, last) # {0}
    /\ fleet + returnCh < MaxFleet
    /\ timerSet' = FALSE
    /\ fleet' = fleet + 1
    /\ pcMain' = "b_rt_lock"
    /\ UNCHANGED <<state, runArgs, pcBg, pcSh, tasks, coreLock, closeVars,
                   timerRun, timerTs, timerStops, selVars, core, returnCh,
                   submits, mainPeer, crashed>>

\* gossip of a fleet task whose pull returned SyncLimit: setState(CatchingUp),
\* then parentReturnCh <- struct{}{}, a send that waits while the buffer is
\* full.  (A waiting sender has set the state already; so have the senders
\* that filled the buffer.)
FleetWrite ==
    /\ ~crashed /\ fleet > 0
    /\ coreLock = Free
    /\ returnCh < ReturnChCap
    /\ state' = "CatchingUp"
    /\ returnCh' = returnCh + 1
    /\ fleet' = fleet - 1
    /\ UNCHANGED <<pcMain, runArgs, pcBg, pcSh, tasks, coreLock, closeVars,
                   timerVars, selVars, core, submits, mainPeer, crashed>>

FleetNext ==
    \/ RunStart \/ LoopRead
    \/ TimerTick \/ FleetTick
    \/ MainResetLock \/ MainResetBody
    \/ BabbleReturn
    \/ FleetWrite
    \/ FFWait \/ FFRequest \/ FFLock \/ FFCore
    \/ FFRestore \/ FFRestoreCheck \/ FFSetBabbling

FleetSpec == FleetInit /\ [][FleetNext]_vars

(* -------------------------- the specification -------------------------- *)
MainStep ==
    \/ RunStart
    \/ LoopRead
    \/ BabbleRPC
    \/ MainResetLock
    \/ MainResetBody
    \/ BabbleReturn
    \/ BabbleShutdown
    \/ ConnectRequest
    \/ ConnectFinish
    \/ FFWait
    \/ FFRequest
    \/ FFLock
    \/ FFCore
    \/ FFRestore
    \/ FFRestoreCheck
    \/ FFSetBabbling

BgStep == BgSelect \/ BgLock \/ BgAdd \/ BgResetBody

ShStep(c) ==
    \/ ShCall(c) \/ ShSet(c) \/ ShClose(c) \/ ShWait(c)
    \/ ShTimer(c) \/ ShTrans(c) \/ ShStore(c)

RpcStep(t) ==
    \/ UnkRespond(t)
    \/ SrOver(t) \/ SrDiff(t) \/ SrToWire(t) \/ SrKnown(t)
    \/ JrAddItx(t) \/ JrForce(t) \/ JrConsensus(t) \/ JrAnchor(t)
    \/ JrRespond(t)
    \/ EsSync(t)
    \/ FrAnchor(t) \/ FrSnapshot(t)

GossipStep(t) ==
    \/ PlKnown(t) \/ PlRequest(t) \/ PlSync(t) \/ GLimit(t)
    \/ PsOver(t) \/ PsDiff(t) \/ PsToWire(t) \/ PsRequest(t)
    \/ GSelLock(t) \/ GUpdate(t) \/ GStats(t)

TaskStep(t) == TaskLock(t) \/ TaskResetBody(t) \/ RpcStep(t) \/ GossipStep(t)

Next ==
    \/ MainStep
    \/ TimerTick
    \/ BgStep
    \/ \E c \in Callers : ShStep(c)
    \/ \E t \in Tasks : TaskStep(t)

Spec == Init /\ [][Next]_vars

(* ------------------------------ properties ----------------------------- *)
HandlerEnded(t) == tasks[t].pc \in {"rt_lock", "rt_body", "done", "panic"}
PushPcs == {"ps_lock1", "ps_over", "ps_lock2", "ps_diff", "ps_towire", "ps_req"}
Others == peers \ {SelfID}

\* C1: state monotonicity.  Once the node state is Shutdown no later step
\* changes it: no read after Shutdown returns Joining, CatchingUp or Babbling.
C1_ShutdownIsFinal == [][state = "Shutdown" => state' = "Shutdown"]_vars

\* C2: respond-once.  Respond is never called twice for an RPC, and an RPC
\* whose handler has ended (returned from processRPC, or died) was answered
\* exactly once.
C2_RespondOnce ==
    \A t \in Tasks :
        tasks[t].kind \in RpcKinds =>
            /\ tasks[t].resp <= 1
            /\ HandlerEnded(t) => tasks[t].resp = 1

\* The positions at which a process executes an operation of the core.
TaskCorePcs ==
    {"sr_over", "sr_diff", "sr_towire", "sr_known", "jr_additx",
     "jr_consensus", "jr_anchor", "jr_respond", "es_sync", "fr_anchor", "pl_known",
     "pl_sync", "ps_over", "ps_diff", "ps_towire", "g_stats", "rt_body"}
InCore ==
    {t \in Tasks : \/ tasks[t].pc \in TaskCorePcs
                   \/ tasks[t].pc = "jr_force" /\ Cardinality(peers) = 1}
    \cup (IF pcMain \in {"ff_core", "b_rt_body"} THEN {MainId} ELSE {})
    \cup (IF pcBg \in {"tx_add", "itx_add", "rt_body"} THEN {BgId} ELSE {})

\* C3: mutex discipline.  A process that executes a core operation holds
\* coreLock, so no two processes are inside a core operation together.
C3_MutexDiscipline ==
    /\ \A h \in InCore : coreLock = h
    /\ Cardinality(InCore) <= 1

\* C4: shutdown ordering.  A Shutdown() call stops the timer only after the
\* shutdown channel is closed and the wait-group has drained, closes the
\* transport only after the timer is stopped and while no tracked task is
\* running, and closes the store only after the transport.
C4_ShutdownOrdering ==
    [][\A c \in Callers :
         /\ (pcSh[c] = "set" /\ pcSh'[c] # "set") => state' = "Shutdown"
         /\ (pcSh[c] = "wait" /\ pcSh'[c] # "wait") =>
                ShutdownChClosed /\ wgCount = 0
         /\ (pcSh[c] = "timer" /\ pcSh'[c] # "timer") => ShutdownChClosed
         /\ (pcSh[c] = "trans" /\ pcSh'[c] # "trans") =>
                ShutdownChClosed /\ timerStops > 0 /\ wgCount = 0
         /\ (pcSh[c] = "store" /\ pcSh'[c] # "store") => TransClosed]_vars

\* C5: Shutdown is idempotent.  Whatever the number of Shutdown() calls, the
\* shutdown channel, the transport and the store are each closed at most once.
C5_ShutdownIdempotent ==
    shutdownCloses <= 1 /\ transCloses <= 1 /\ storeCloses <= 1

\* C6: the result of PeerSelector.Next().  With no peer besides self it is
\* nil; with exactly one it is that peer, even when it is the last contacted;
\* with two or more it is a peer of the set that is neither self nor the last
\* contacted.  It is never self and never outside the peer set.
C6_SelectorNext ==
    LET R == NextChoices(peers, SelfID, last)
    IN  /\ R # {}
        /\ Others = {} => R = {0}
        /\ Cardinality(Others) = 1 => R = Others
        /\ Cardinality(Others) >= 2 =>
              \A p \in R : p \in Others /\ p # SelfID /\ p # last
        /\ \A p \in R : p = 0 \/ (p \in peers /\ p # SelfID)
        /\ \A t \in Tasks :
              tasks[t].kind = "gossip" /\ tasks[t].pc = "pl_lock" =>
                  tasks[t].peer \in PeerIds \ {SelfID}

\* A gossip task was started for a peer other than the last contacted one,
\* in a peer set with two or more peers besides self that holds the last one.
C6_Witness ==
    /\ Cardinality(Others) >= 2
    /\ last \in Others
    /\ \E t \in Tasks : tasks[t].pc = "done" /\ tasks[t].upd = 1
    /\ \E t \in Tasks :
          tasks[t].kind = "gossip" /\ tasks[t].pc = "pl_lock"
          /\ tasks[t].peer \in Others \ {last}

C8_PushAfterPull ==
    \A t \in Tasks :
        tasks[t].kind = "gossip" =>
            /\ tasks[t].pc \in PushPcs => tasks[t].pull = "ok"
            /\ tasks[t].eager > 0 => tasks[t].pull = "ok"
            /\ tasks[t].pull = "err" =>
                  tasks[t].eager = 0 /\ tasks[t].pc = "done"

\* A gossip task sent its EagerSyncRequest after a successful pull.
C8_Witness ==
    \E t \in Tasks :
        tasks[t].kind = "gossip" /\ tasks[t].pull = "ok" /\ tasks[t].eager = 1

\* C9: shutdown releases the resources.  Once the state is Shutdown, the Run
\* loop has returned and every Shutdown() call has returned, the shutdown
\* channel is closed, the timer stopped, and the transport and store closed.
C9_ShutdownReleases ==
    (/\ state = "Shutdown" /\ ~crashed /\ pcMain = "done"
     /\ \A c \in Callers : pcSh[c] \in {"off", "ret"})
    => (/\ ShutdownChClosed /\ timerRun = "stopped"
        /\ TransClosed /\ storeCloses > 0)

\* C10: unknown RPC.  The handler's step replies once, with a nil body and an
\* error, and changes neither the node state, the core, the peer set nor the
\* selector's last; the node does not die and the task goes on.
C10_UnknownRpc ==
    [][\A t \in Tasks :
         (tasks[t].pc = "unk" /\ tasks'[t].pc # "unk") =>
            /\ tasks[t].kind = "unknown" /\ tasks[t].resp = 0
            /\ tasks'[t].resp = 1
            /\ tasks'[t].reply.body = "nil" /\ tasks'[t].reply.err
            /\ state' = state /\ core' = core
            /\ peers' = peers /\ last' = last
            /\ ~crashed' /\ tasks'[t].pc = "rt_lock"]_vars

\* An unknown command was answered and its task returned.
C10_Witness ==
    \E t \in Tasks :
        tasks[t].kind = "unknown" /\ tasks[t].pc = "done" /\ tasks[t].resp = 1

\* C11: catch-up liveness.  A node in CatchingUp whose fastForward pass waits
\* for the wait-group is never stuck there: either no tracked task is left
\* and the pass goes on to its request (and, the request, core.FastForward
\* and Restore succeeding, to Babbling), or a tracked task can still take a
\* step towards its return.
C11_CatchUpProceeds ==
    (state = "CatchingUp" /\ pcMain = "ff_wait" /\ ~crashed
     /\ shutdownCloses = 0)
    => (ENABLED FFWait \/ ENABLED FleetWrite)

\* The events the node has and a remote with Known map K lacks, counted per
\* creator from the two Known maps alone.
Surplus(K) ==
    Max2(0, core.known[SelfID] - K[SelfID])
    + Max2(0, core.known[SelfID + 1] - K[SelfID + 1])

\* C12: SyncLimit symmetry.  The SyncRequest handler sets SyncLimit in its
\* reply, and push takes its no-push branch, exactly when the events the
\* core has beyond the Known map exceed conf.SyncLimit: the same function of
\* the Known map, the core's Known and the threshold on both sides.  The
\* handler's reply carries the flag it computed.
C12_SyncLimitSymmetry ==
    [][\A t \in Tasks :
         /\ (tasks[t].pc = "sr_over" /\ tasks'[t].pc # "sr_over") =>
               /\ tasks'[t].reply.limit = (Surplus(tasks[t].k) > SyncLimit)
               /\ (tasks'[t].pc = "sr_lock3") = (Surplus(tasks[t].k) > SyncLimit)
               /\ (tasks'[t].pc = "sr_lock2") = (Surplus(tasks[t].k) <= SyncLimit)
         /\ (tasks[t].pc = "sr_known" /\ tasks'[t].pc # "sr_known") =>
               tasks'[t].reply.limit = tasks[t].over
         /\ (tasks[t].pc = "ps_over" /\ tasks'[t].pc # "ps_over") =>
               /\ (tasks'[t].pc = "g_sel_lock") = (Surplus(tasks[t].k) > SyncLimit)
               /\ (tasks'[t].pc = "ps_lock2") = (Surplus(tasks[t].k) <= SyncLimit)
               /\ tasks'[t].over = (Surplus(tasks[t].k) > SyncLimit)]_vars

\* A push found the peer over the limit and sent nothing.
C12_Witness ==
    \E t \in Tasks :
        /\ tasks[t].kind = "gossip" /\ tasks[t].pc = "g_sel_lock"
        /\ tasks[t].over /\ tasks[t].eager = 0
        /\ Surplus(tasks[t].k) > SyncLimit

\* C13: sync-limit handling in gossip.  A gossip task whose pull was answered
\* SyncLimit sets the state to CatchingUp and writes its message to returnCh
\* without waiting: whenever such a task is in flight the channel has room
\* for its message.
C13_SyncLimitHandOver == fleet > 0 => returnCh < ReturnChCap

\* C14: selector update.  A gossip task calls UpdateLast only after its pull
\* returned without error and without sync-limit and its push returned
\* without error, once, holding selectorLock, with the id of the peer it
\* gossiped with; a task that ends has called it exactly when pull and push
\* succeeded.  Nothing else changes the selector's last (but connect, which
\* installs a new selector), so an aborted round leaves it unchanged.
C14_SelectorUpdate ==
    [][/\ \A t \in Tasks :
            /\ tasks'[t].upd > tasks[t].upd =>
                  /\ tasks[t].kind = "gossip" /\ tasks[t].pc = "g_update"
                  /\ tasks[t].pull = "ok" /\ ~tasks[t].err
                  /\ tasks[t].eager <= 1
                  /\ selectorLock = t
                  /\ tasks[t].upd = 0 /\ tasks'[t].upd = 1
                  /\ last' = tasks[t].peer
            /\ (tasks[t].kind = "gossip" /\ tasks[t].pc # "done"
                /\ tasks'[t].pc = "done") =>
                  /\ (tasks'[t].upd = 1) = (tasks'[t].pull = "ok" /\ ~tasks'[t].err)
                  /\ last' = last
       /\ last' # last =>
            \/ pcMain = "connect_fin"
            \/ \E t \in Tasks : tasks'[t].upd > tasks[t].upd]_vars

\* A gossip task pushed its events and then recorded its peer as the last.
C14_Witness ==
    \E t \in Tasks :
        /\ tasks[t].kind = "gossip" /\ tasks[t].pc = "g_stats"
        /\ tasks[t].eager = 1 /\ tasks[t].upd = 1
        /\ last = tasks[t].peer

\* The positions at which a process is inside an outbound transport call or
\* an application call.
TaskIOPcs == {"pl_req", "ps_req", "fr_snapshot"}
MainIOPcs == {"connect", "ff_req", "ff_restore"}

\* C15: I/O outside the lock.  No process holds coreLock while it is in a
\* transport call (Sync, EagerSync, Join, FastForward) or an application call
\* (GetSnapshot, Restore); the core operation that follows the call in pull
\* (sync) and in fastForward (core.FastForward) runs with the lock taken
\* again.
C15_IOOutsideLock ==
    /\ \A t \in Tasks : tasks[t].pc \in TaskIOPcs => coreLock # t
    /\ pcMain \in MainIOPcs => coreLock # MainId
    /\ \A t \in Tasks : tasks[t].pc = "pl_sync" => coreLock = t
    /\ pcMain = "ff_core" => coreLock = MainId

\* A gossip task is in its EagerSync round trip while another process holds
\* the lock.
C15_Witness ==
    \E t \in Tasks :
        tasks[t].pc = "ps_req" /\ coreLock # t /\ coreLock # Free

\* The processes that are inside resetTimer, holding the lock.
InResetTimer ==
    {t \in Tasks : tasks[t].pc = "rt_body"}
    \cup (IF pcMain = "b_rt_body" THEN {MainId} ELSE {})
    \cup (IF pcBg = "rt_body" THEN {BgId} ELSE {})

C17_TickThenReset ==
    [][(timerSet /\ ~timerSet' /\ timerRun' = "on" /\ pcMain = "babble") =>
          /\ pcMain' = "b_rt_lock"
          /\ \A t \in Tasks :
                tasks'[t] # tasks[t] =>
                   /\ gossipOn
                   /\ tasks'[t].kind = "gossip"
                   /\ tasks'[t].peer \in NextChoices(peers, SelfID, last) \ {0}
          /\ fleet' > fleet => gossipOn /\ NextChoices(peers, SelfID, last) # {0}]_vars

\* The babble call that made returnCh is still running, so it can read it.
BabbleRunning == pcMain \in {"babble", "b_rt_lock", "b_rt_body"}

\* C18: a gossip task never blocks on its write to returnCh.  Once babble
\* has returned and nobody reads the channel any more, every gossip task
\* still in flight finds room in the buffer for its message.
C18_WriteNeverBlocks ==
    (fleet > 0 /\ ~BabbleRunning /\ ~crashed) => ENABLED FleetWrite

\* fastForward after its waitRoutines() and before its return.
FFPcs == {"ff_req", "ff_lock", "ff_core", "ff_restore", "ff_restored",
          "ff_restore_err", "ff_set"}

\* C19: fastForward quiescence.  From the end of fastForward's wait for the
\* wait-group until fastForward returns, no RPC-handler task and no gossip
\* task is running, so none holds coreLock or executes a core operation
\* while core.FastForward or Restore runs.
C19_FastForwardQuiescence ==
    pcMain \in FFPcs =>
        /\ wgCount = 0
        /\ \A t \in Tasks : ~Running(t)
        /\ coreLock \notin Tasks
        /\ InCore \subseteq {MainId, BgId}

\* core.FastForward runs after a gossip task that was answered SyncLimit
\* has returned.
C19_Witness ==
    /\ pcMain = "ff_core" /\ coreLock = MainId
    /\ \E t \in Tasks :
          tasks[t].kind = "gossip" /\ tasks[t].pc = "done"
          /\ tasks[t].pull = "limit"

\* C20: the order of fastForward.  The state becomes Babbling only by
\* fastForward's last step, which is reached only after the request returned
\* without error, core.FastForward succeeded while the lock was held, and
\* Restore succeeded with the lock released, in this order.  A pass whose
\* request or restore fails returns without writing the state, and a loop
\* that reads CatchingUp runs another pass.
C20_FastForwardOrder ==
    [][/\ (state' = "Babbling" /\ state # "Babbling") => pcMain = "ff_set"
       /\ (pcMain' = "ff_set" /\ pcMain # "ff_set") =>
             pcMain = "ff_restored" /\ coreLock # MainId
       /\ (pcMain' = "ff_restored" /\ pcMain # "ff_restored") =>
             pcMain = "ff_restore" /\ coreLock # MainId
       /\ (pcMain' = "ff_restore" /\ pcMain # "ff_restore") =>
             pcMain = "ff_core" /\ coreLock = MainId /\ coreLock' = Free
       /\ (pcMain' = "ff_core" /\ pcMain # "ff_core") => pcMain = "ff_lock"
       /\ (pcMain' = "ff_lock" /\ pcMain # "ff_lock") =>
             pcMain = "ff_req" /\ mainPeer' \in Others
       /\ (pcMain \in {"ff_req", "ff_restore_err"} /\ pcMain' = "loop") =>
             state' = state
       /\ (pcMain = "ff_restore_err" /\ pcMain' # pcMain) => pcMain' = "loop"
       /\ (pcMain = "loop" /\ state = "CatchingUp" /\ pcMain' # "loop") =>
             pcMain' = "ff_wait"]_vars

\* A pass got through its request, core.FastForward and Restore: the core
\* is the fast-forwarded one, the lock is free, the state is still
\* CatchingUp and the next step sets it to Babbling.
C20_Witness ==
    /\ pcMain = "ff_set" /\ state = "CatchingUp"
    /\ core.lastBlock >= 0 /\ coreLock # MainId
    /\ mainPeer \in Others

\* C21: the SyncRequest handler.  For a requester over the sync limit the
\* reply has SyncLimit set and no events; otherwise SyncLimit is not set and
\* the events are the wire form of EventDiff(cmd.Known).  In both branches
\* Known is the core's KnownEvents and FromID the node's id, and the reply is
\* sent once, also when EventDiff or ToWire failed: then with the body built
\* so far and the error.
C21_SyncReply ==
    [][\A t \in Tasks :
         /\ (tasks[t].pc = "sr_over" /\ tasks'[t].pc # "sr_over") =>
               /\ tasks'[t].reply.limit = OverSyncLimit(core, tasks[t].k, SyncLimit)
               /\ tasks'[t].reply.limit => tasks'[t].pc = "sr_lock3"
               /\ tasks'[t].reply.events = {} /\ ~tasks'[t].err
         /\ (tasks[t].pc = "sr_diff" /\ tasks'[t].pc # "sr_diff") =>
               /\ ~tasks[t].reply.limit
               /\ \/ tasks'[t].ev = EventDiff(core, tasks[t].k) /\ ~tasks'[t].err
                  \/ tasks'[t].ev = {} /\ tasks'[t].err
               /\ tasks'[t].pc = "sr_towire"
         /\ (tasks[t].pc = "sr_towire" /\ tasks'[t].pc # "sr_towire") =>
               /\ \/ /\ tasks'[t].reply.events = ToWire(tasks[t].ev)
                     /\ tasks'[t].err = tasks[t].err
                  \/ tasks'[t].reply.events = {} /\ tasks'[t].err
               /\ tasks'[t].pc = "sr_lock3"
         /\ (tasks[t].pc = "sr_known" /\ tasks'[t].pc # "sr_known") =>
               /\ tasks[t].resp = 0 /\ tasks'[t].resp = 1
               /\ tasks'[t].reply.body = "sync"
               /\ tasks'[t].reply.from = SelfID
               /\ tasks'[t].reply.known = KnownEvents(core)
               /\ tasks'[t].reply.limit = tasks[t].over
               /\ tasks'[t].reply.limit => tasks'[t].reply.events = {}
               /\ tasks'[t].reply.events = tasks[t].reply.events
               /\ tasks'[t].reply.err = tasks[t].err]_vars

\* A SyncRequest was answered with events, without error and without
\* SyncLimit.
C21_Witness ==
    \E t \in Tasks :
        /\ tasks[t].kind = "sync" /\ tasks[t].pc = "rt_lock"
        /\ tasks[t].resp = 1 /\ ~tasks[t].reply.limit
        /\ tasks[t].reply.events # {} /\ ~tasks[t].reply.err
        /\ tasks[t].reply.from = SelfID

\* C22: push suppression.  push sends an EagerSyncRequest exactly when the
\* remote is not over the sync limit, EventDiff of the remote's Known map is
\* not empty and its conversion to wire form succeeded: the request carries
\* that wire form, and it is the only one of the call.  With the remote over
\* the limit, or with an empty diff, push sends nothing and returns without
\* an error.
C22_PushSuppression ==
    [][\A t \in Tasks :
         /\ tasks'[t].eager > tasks[t].eager =>
               /\ tasks[t].kind = "gossip" /\ tasks[t].pc = "ps_req"
               /\ tasks[t].eager = 0 /\ tasks'[t].eager = 1
               /\ ~tasks[t].over /\ ~tasks[t].err
               /\ tasks[t].ev # {} /\ tasks[t].ev \subseteq WireEvents
         /\ (tasks[t].pc = "ps_over" /\ tasks'[t].pc # "ps_over") =>
               /\ tasks'[t].over = OverSyncLimit(core, tasks[t].k, SyncLimit)
               /\ tasks'[t].over =>
                     /\ tasks'[t].pc = "g_sel_lock"
                     /\ tasks'[t].eager = 0 /\ ~tasks'[t].err
               /\ ~tasks'[t].over => tasks'[t].pc = "ps_lock2"
         /\ (tasks[t].pc = "ps_diff" /\ tasks'[t].pc # "ps_diff") =>
               \/ /\ EventDiff(core, tasks[t].k) = {}
                  /\ tasks'[t].pc = "g_sel_lock"
                  /\ tasks'[t].eager = 0 /\ ~tasks'[t].err
               \/ /\ EventDiff(core, tasks[t].k) # {}
                  /\ tasks'[t].ev = EventDiff(core, tasks[t].k)
                  /\ tasks'[t].pc = "ps_towire"
               \/ tasks'[t].err /\ tasks'[t].pc = "done" /\ tasks'[t].eager = 0
         /\ (tasks[t].pc = "ps_towire" /\ tasks'[t].pc # "ps_towire") =>
               \/ tasks'[t].ev = ToWire(tasks[t].ev) /\ tasks'[t].pc = "ps_req"
               \/ tasks'[t].err /\ tasks'[t].pc = "done" /\ tasks'[t].eager = 0
         /\ (tasks[t].pc = "ps_req" /\ tasks'[t].pc # "ps_req") =>
               tasks'[t].eager = 1]_vars

\* A push whose remote was not over the limit found an empty diff and sent
\* nothing.
C22_Witness ==
    \E t \in Tasks :
        /\ tasks[t].kind = "gossip" /\ tasks[t].pc = "g_sel_lock"
        /\ tasks[t].pull = "ok" /\ ~tasks[t].over
        /\ tasks[t].eager = 0 /\ ~tasks[t].err

\* C23: the JoinRequest handler forces progress.  Its first core operation
\* appends one internal transaction to the pool.  Self-events are appended
\* only by a node alone in its peer set: at most ForceEvents of them, fewer
\* only when AddSelfEvent failed; a node that is not alone appends none.  A
\* node that is alone runs consensus after the self-events and, like every
\* node, once more before it replies: two RunConsensus calls when alone, one
\* otherwise.
C23_JoinForcesProgress ==
    [][\A t \in Tasks :
         /\ (tasks[t].pc = "jr_additx" /\ tasks'[t].pc # "jr_additx") =>
               /\ core'.itxPool = core.itxPool + 1
               /\ tasks[t].n = 0 /\ tasks[t].rc = 0
               /\ tasks'[t].pc = "jr_force"
         /\ (tasks[t].pc = "jr_force" /\ tasks'[t].pc # "jr_force") =>
               /\ Cardinality(peers) = 1 =>
                     /\ tasks'[t].n <= ForceEvents
                     /\ tasks'[t].n < ForceEvents => tasks'[t].err
                     /\ core' = SelfEvents(core, tasks'[t].n)
               /\ Cardinality(peers) # 1 =>
                     tasks'[t].n = 0 /\ core' = core
               /\ tasks'[t].pc = "jr_consensus"
         /\ (tasks[t].pc = "jr_respond" /\ tasks'[t].pc # "jr_respond") =>
               /\ tasks'[t].resp = 1
               /\ tasks[t].rc = IF Cardinality(peers) = 1 THEN 2 ELSE 1]_vars

\* C24: the JoinRequest handler's reply.  When the handler replies, the
\* core's AnchorBlock is set: if it was absent it is now the store's last
\* block index, and if it was present it is what it was.  The reply is sent
\* once, with the node's own peer record and id, also when AddSelfEvent or
\* RunConsensus failed.  So a FastForwardRequest handled after a JoinRequest
\* was answered finds an anchor block.
C24_JoinReply ==
    [][\A t \in Tasks :
         /\ (tasks[t].pc = "jr_respond" /\ tasks'[t].pc # "jr_respond") =>
               /\ core'.anchor # {}
               /\ core.anchor = {} => core'.anchor = {core'.lastBlock}
               /\ core.anchor # {} => core'.anchor = core.anchor
               /\ tasks[t].resp = 0 /\ tasks'[t].resp = 1
               /\ tasks'[t].reply.body = "join"
               /\ tasks'[t].reply.peer = SelfID
               /\ tasks'[t].reply.from = SelfID
               /\ tasks'[t].reply.err = tasks[t].err
         /\ (tasks[t].pc = "fr_anchor" /\ tasks'[t].pc # "fr_anchor"
             /\ \E u \in Tasks : tasks[u].kind = "join" /\ tasks[u].resp = 1) =>
               core.anchor # {} /\ ~crashed']_vars

\* C25: the lifecycle transitions.  The node is constructed in Babbling, and
\* Run sets Joining only for a non-empty addr.  Every later change of the
\* state is Joining to CatchingUp (by connect, with the responder's peer in
\* the peer set and a new selector), CatchingUp to Babbling (by the last
\* step of fastForward), Babbling to CatchingUp (by a gossip task whose pull
\* reported sync-limit), or a change to Shutdown.
C25_LifecycleTransitions ==
    [][/\ pcMain = "init" => state = "Babbling"
       /\ (pcMain = "init" /\ pcMain' # "init") =>
             state' = IF addr THEN "Joining" ELSE "Babbling"
       /\ (pcMain # "init" /\ state' # state) =>
             \/ /\ state = "Joining" /\ state' = "CatchingUp"
                /\ pcMain = "connect_fin"
                /\ mainPeer \in peers' /\ last' = 0
             \/ /\ state = "CatchingUp" /\ state' = "Babbling"
                /\ pcMain = "ff_set"
             \/ /\ state = "Babbling" /\ state' = "CatchingUp"
                /\ \/ fleet' < fleet
                   \/ \E t \in Tasks :
                         /\ tasks[t].pc = "g_limit" /\ tasks[t].pull = "limit"
                         /\ tasks'[t].pc = "done"
             \/ state' = "Shutdown"]_vars

\* C26: no use after close.  Once Shutdown() has closed the transport or the
\* store, no RPC-handler task and no gossip task is running, so none calls
\* the transport, replies to an RPC or touches the store afterwards; and
\* since a task that is started is running, none is started either.
C26_NoUseAfterClose ==
    (~crashed /\ (TransClosed \/ storeCloses > 0)) =>
        /\ wgCount = 0
        /\ \A t \in Tasks : ~Running(t)

\* C27: fastForward finds a peer.  Whenever the lifecycle loop is in
\* fastForward, before its request, the peer set holds a peer other than the
\* node itself and Next() returns one of them, never nil: so peer.NetAddr
\* can be read.  This holds after connect and after a gossip task's
\* sync-limit.
C27_FastForwardHasPeer ==
    pcMain \in {"ff_wait", "ff_req"} =>
        /\ Others # {}
        /\ 0 \notin NextChoices(peers, SelfID, last)
        /\ NextChoices(peers, SelfID, last) \subseteq Others

\* The fastForward of a joining node got the join responder from Next() and
\* sent its request to it.
C27_Witness ==
    /\ addr /\ pcMain = "ff_lock"
    /\ mainPeer \in Others
    /\ ~crashed

\* C28: one SyncRequest handler sees one core state.  The core's Known map
\* is the same when the handler tests the sync limit, when it computes the
\* diff and when it reads KnownEvents for the reply: for every creator the
\* replied Known equals the Known the core had when the events of the reply
\* (or the sync-limit flag) were computed.
C28_SyncHandlerConsistent ==
    [][\A t \in Tasks :
         /\ (tasks[t].pc = "sr_diff" /\ tasks'[t].pc # "sr_diff") =>
               tasks[t].seen = KnownEvents(core)
         /\ (tasks[t].pc = "sr_known" /\ tasks'[t].pc # "sr_known") =>
               \A c \in Creators :
                   tasks'[t].reply.known[c] = tasks[t].seen[c]]_vars

\* C29: resetTimer completes.  A process inside resetTimer, holding
\* coreLock, is never left waiting on its send: either the timer is armed
\* and nothing is sent, or the control timer task is running and receives
\* the interval, so that the process can take its step and release the lock.
\* (A stopped control timer never runs again, so a sender that waits for it
\* waits forever, and with it every process that needs coreLock.)
C29_ResetTimerCompletes ==
    (~crashed /\ coreLock \in InResetTimer) =>
        /\ timerSet \/ timerRun = "on"
        /\ ENABLED (\/ MainResetBody
                    \/ BgResetBody
                    \/ \E t \in Tasks : TaskResetBody(t))

====
